---- MODULE Spec2Model ----
(***************************************************************************)
(* Dynamic batching scheduler of the inference service:                    *)
(*   engine/queue.py   RequestQueue (put, get_batch, counters)             *)
(*   service.py        ModelWorker._scheduler, ModelWorker.infer,          *)
(*                     API.infer (request construction)                    *)
(* Everything runs on one asyncio event loop: an action is the code that   *)
(* runs between two suspension points of a coroutine.                      *)
(***************************************************************************)
EXTENDS Integers, Sequences, FiniteSets, TLC

\* ------------------------------------------------------------------ bounds
NumRequests == 2
MaxCapacity == 2
MaxBatchSize == 2
MaxDrainTimeouts == 1
\* the number of callers in the overflow runs (OverflowSpec)
OverflowRequests == 4
\* the number of callers in the runs from construction to shutdown (ServiceSpec)
ServiceRequests == 1
\* the number of callers and of scheduler-level exceptions in the runs with
\* failing metric calls (FaultSpec)
FaultRequests == 2
MaxSchedulerErrors == 1

MaxOf(a, b) == IF a > b THEN a ELSE b

Requests == 1..MaxOf(NumRequests, OverflowRequests)

VARIABLES
    limit,             \* number of requests the callers issue in this run
    maxsize,           \* RequestQueue.maxsize (config.server.max_queue_size)
    batch_size,        \* ModelWorker.batch_size (model.batch_size())
    q,                 \* RequestQueue.q: the asyncio.Queue contents, head first
    total_requests,    \* RequestQueue._total_requests
    total_rejections,  \* RequestQueue._total_rejections
    total_timeouts,    \* RequestQueue._total_timeouts
    clock,             \* time.time() as seen by request construction
    enqueue_ts,        \* InferenceRequest.enqueue_ts of every request
    stage,             \* position of the caller of request r
    future,            \* InferenceRequest.future of every request
    nfired,            \* number of set_result/set_exception applied to r's future
    delivered,         \* what ModelWorker.infer returned or raised for r
    pc,                \* position of the _scheduler task
    batch,             \* the batch held by the _scheduler
    last,              \* the last batch the _scheduler finished
    encode_raised,     \* some encode call has raised
    put_after_raise,   \* requests enqueued after an encode call raised
    metrics,           \* the counters and observations of MetricsCollector
    admitted,          \* the requests put accepted, in the order of the puts
    encode_calls,      \* the payload lists passed to model.encode, in order
    init_pc,           \* position of ModelWorker.__init__
    init_log,          \* the steps of ModelWorker.__init__ that succeeded
    warmup_enabled,    \* config.models.warmup_enabled
    batch_wait,        \* ModelWorker.batch_wait (model.batch_wait_s())
    lifespan,          \* position of the FastAPI lifespan manager
    sched_errors       \* exceptions caught by the outer except of _scheduler

vars == <<limit, admitted, encode_calls, maxsize, batch_size, q, total_requests, total_rejections,
          total_timeouts, clock, enqueue_ts, stage, future, nfired, delivered,
          pc, batch, last, encode_raised, put_after_raise, metrics,
          init_pc, init_log, warmup_enabled, batch_wait, lifespan,
          sched_errors>>

\* the state of construction, configuration and shutdown
worker_vars == <<init_pc, init_log, warmup_enabled, batch_wait, lifespan,
                 sched_errors>>

\* --------------------------------------------------------------- helpers
Range(s) == {s[i] : i \in 1..Len(s)}

\* The result slot of a future that holds no InferenceResponse
NoResponse == [output |-> <<>>, request_id |-> <<>>, batch_size |-> 0]

\* asyncio.Future() as created by API.infer
PendingFuture == [state |-> "pending", result |-> NoResponse, exception |-> "none"]

\* Future.done()
done(f) == f.state # "pending"

\* InferenceRequest.payload and InferenceRequest.request_id of request r
payload(r) == <<"image", r>>
request_id(r) == <<"uuid", r>>

\* RequestQueue.depth
depth == Len(q)

\* RequestQueue.is_full: asyncio.Queue.full() is never true for maxsize <= 0
is_fullOffByOne == maxsize > 0 /\ depth > maxsize
is_fullAtZero == depth >= maxsize
is_full == maxsize > 0 /\ depth >= maxsize

\* RequestQueue.is_empty
is_empty == depth = 0

\* RequestQueue.get_metrics (utilization is kept as the pair num/den)
get_metrics ==
    [depth |-> depth, maxsize |-> maxsize,
     total_requests |-> total_requests,
     total_rejections |-> total_rejections,
     total_timeouts |-> total_timeouts,
     utilization |-> IF maxsize > 0 THEN <<depth, maxsize>> ELSE <<0, 1>>]

\* ---------------------------------------------------------------- Init
\* The worker and its callers before the first request; the configuration
\* and the number of requests are fixed by the specification.
InitState ==
    /\ q = <<>>
    /\ total_requests = 0
    /\ total_rejections = 0
    /\ total_timeouts = 0
    /\ clock = 0
    /\ enqueue_ts = [r \in Requests |-> 0]
    /\ stage = [r \in Requests |-> "new"]
    /\ future = [r \in Requests |-> PendingFuture]
    /\ nfired = [r \in Requests |-> 0]
    /\ delivered = [r \in Requests |-> <<>>]
    /\ pc = "get_batch"
    /\ batch = <<>>
    /\ last = [batch |-> <<>>, kind |-> "none", outputs |-> <<>>]
    /\ encode_raised = FALSE
    /\ put_after_raise = {}
    /\ metrics = [queue_rejections |-> 0, success |-> 0,
                  processing_error |-> 0, timeout |-> 0, unknown |-> 0,
                  batch_sizes |-> <<>>]
    /\ admitted = <<>>
    /\ encode_calls = <<>>
    /\ sched_errors = 0

\* The steps of ModelWorker.__init__ in the order of the code
InitSteps(warmup) ==
    <<"load_model", "validate_model_interface", "MetricsCollector", "load">>
    \o (IF warmup THEN <<"warmup">> ELSE <<>>)
    \o <<"batch_config", "RequestQueue", "create_task">>

\* A constructed worker with a positive wait, while the application runs
Constructed ==
    /\ init_pc = "ready"
    /\ warmup_enabled = TRUE
    /\ init_log = InitSteps(warmup_enabled)
    /\ batch_wait = 1
    /\ lifespan = "running"

Init ==
    /\ limit = NumRequests
    /\ maxsize \in 0..MaxCapacity
    /\ batch_size \in 0..MaxBatchSize
    /\ InitState
    /\ Constructed

\* ------------------------------------------------- API.infer: construction
\* Requests are constructed in the order of their ids; enqueue_ts is taken
\* when the InferenceRequest is constructed, before worker.infer is awaited.
CreateRequest(r) ==
    /\ stage[r] = "new"
    /\ r <= limit
    /\ \A o \in Requests : o < r => stage[o] # "new"
    /\ enqueue_ts' = [enqueue_ts EXCEPT ![r] = clock]
    /\ clock' = clock + 1
    /\ stage' = [stage EXCEPT ![r] = "created"]
    /\ UNCHANGED <<worker_vars, limit, maxsize, batch_size, q, total_requests, total_rejections,
                   total_timeouts, future, nfired, delivered, pc, batch, last,
                   encode_raised, put_after_raise, metrics, admitted,
                   encode_calls>>

\* ------------------------------------------------------ RequestQueue.put
\* The QueueFullError raised by put carries depth() read after the counter
\* was incremented.
QueueFullError == [kind |-> "QueueFull", queue_depth |-> depth]

\* put that keeps the request it rejects
InferPutEnqueuesRejected(r) ==
    /\ stage[r] = "created"
    /\ IF is_full
       THEN /\ total_rejections' = total_rejections + 1
            /\ metrics' = [metrics EXCEPT
                             !.queue_rejections = metrics.queue_rejections + 1]
            /\ delivered' = [delivered EXCEPT
                               ![r] = Append(delivered[r], QueueFullError)]
            /\ stage' = [stage EXCEPT ![r] = "done"]
            /\ q' = Append(q, r)
            /\ UNCHANGED <<total_requests, put_after_raise, admitted>>
       ELSE /\ q' = Append(q, r)
            /\ admitted' = Append(admitted, r)
            /\ total_requests' = total_requests + 1
            /\ stage' = [stage EXCEPT ![r] = "waiting"]
            /\ put_after_raise' = IF encode_raised
                                  THEN put_after_raise \cup {r}
                                  ELSE put_after_raise
            /\ UNCHANGED <<total_rejections, metrics, delivered>>
    /\ UNCHANGED <<worker_vars, limit, maxsize, batch_size, total_timeouts, clock, enqueue_ts,
                   future, nfired, pc, batch, last, encode_raised,
                   encode_calls>>

\* put that counts the request it rejects as a request
InferPutCountsRejected(r) ==
    /\ stage[r] = "created"
    /\ IF is_full
       THEN /\ total_rejections' = total_rejections + 1
            /\ total_requests' = total_requests + 1
            /\ metrics' = [metrics EXCEPT
                             !.queue_rejections = metrics.queue_rejections + 1]
            /\ delivered' = [delivered EXCEPT
                               ![r] = Append(delivered[r], QueueFullError)]
            /\ stage' = [stage EXCEPT ![r] = "done"]
            /\ UNCHANGED <<q, put_after_raise, admitted>>
       ELSE /\ q' = Append(q, r)
            /\ admitted' = Append(admitted, r)
            /\ total_requests' = total_requests + 1
            /\ stage' = [stage EXCEPT ![r] = "waiting"]
            /\ put_after_raise' = IF encode_raised
                                  THEN put_after_raise \cup {r}
                                  ELSE put_after_raise
            /\ UNCHANGED <<total_rejections, metrics, delivered>>
    /\ UNCHANGED <<worker_vars, limit, maxsize, batch_size, total_timeouts, clock,
                   enqueue_ts, future, nfired, pc, batch, last, encode_raised,
                   encode_calls>>

\* infer that calls the model itself for the request it has enqueued
InferPutEncodes(r) ==
    /\ stage[r] = "created"
    /\ IF is_full
       THEN /\ total_rejections' = total_rejections + 1
            /\ metrics' = [metrics EXCEPT
                             !.queue_rejections = metrics.queue_rejections + 1]
            /\ delivered' = [delivered EXCEPT
                               ![r] = Append(delivered[r], QueueFullError)]
            /\ stage' = [stage EXCEPT ![r] = "done"]
            /\ UNCHANGED <<q, total_requests, put_after_raise, admitted,
                           encode_calls>>
       ELSE /\ q' = Append(q, r)
            /\ admitted' = Append(admitted, r)
            /\ encode_calls' = Append(encode_calls, <<payload(r)>>)
            /\ total_requests' = total_requests + 1
            /\ stage' = [stage EXCEPT ![r] = "waiting"]
            /\ put_after_raise' = IF encode_raised
                                  THEN put_after_raise \cup {r}
                                  ELSE put_after_raise
            /\ UNCHANGED <<total_rejections, metrics, delivered>>
    /\ UNCHANGED <<worker_vars, limit, maxsize, batch_size, total_timeouts, clock,
                   enqueue_ts, future, nfired, pc, batch, last, encode_raised>>

\* ModelWorker.infer up to its first suspension point: queue.put, then either
\* the except QueueFullError branch or the wait on request.future.
InferPut(r) ==
    /\ stage[r] = "created"
    /\ IF is_full
       THEN /\ total_rejections' = total_rejections + 1
            /\ metrics' = [metrics EXCEPT
                             !.queue_rejections = metrics.queue_rejections + 1]
            /\ delivered' = [delivered EXCEPT
                               ![r] = Append(delivered[r], QueueFullError)]
            /\ stage' = [stage EXCEPT ![r] = "done"]
            /\ UNCHANGED <<q, total_requests, put_after_raise, admitted>>
       ELSE /\ q' = Append(q, r)
            /\ admitted' = Append(admitted, r)
            /\ total_requests' = total_requests + 1
            /\ stage' = [stage EXCEPT ![r] = "waiting"]
            /\ put_after_raise' = IF encode_raised
                                  THEN put_after_raise \cup {r}
                                  ELSE put_after_raise
            /\ UNCHANGED <<total_rejections, metrics, delivered>>
    /\ UNCHANGED <<worker_vars, limit, maxsize, batch_size, total_timeouts, clock, enqueue_ts,
                   future, nfired, pc, batch, last, encode_raised,
                   encode_calls>>

\* ModelWorker.infer resumed by its future: wait_for returns the result, or
\* re-raises the exception through the except Exception branch.
InferReturn(r) ==
    /\ stage[r] = "waiting"
    /\ future[r].state \in {"result", "exception"}
    /\ delivered' = [delivered EXCEPT ![r] =
           Append(delivered[r],
                  IF future[r].state = "result"
                  THEN [kind |-> "Response", value |-> future[r].result]
                  ELSE [kind |-> "Error", cause |-> future[r].exception])]
    /\ metrics' = IF future[r].state = "exception"
                  THEN [metrics EXCEPT !.unknown = metrics.unknown + 1]
                  ELSE metrics
    /\ stage' = [stage EXCEPT ![r] = "done"]
    /\ UNCHANGED <<worker_vars, limit, maxsize, batch_size, q, total_requests, total_rejections,
                   total_timeouts, clock, enqueue_ts, future, nfired, pc, batch,
                   last, encode_raised, put_after_raise, admitted,
                   encode_calls>>

\* the timeout branch without record_error("timeout")
InferTimeoutUnrecorded(r) ==
    /\ stage[r] = "waiting"
    /\ ~done(future[r])
    /\ future' = [future EXCEPT ![r].state = "cancelled"]
    /\ delivered' = [delivered EXCEPT
                       ![r] = Append(delivered[r],
                                     [kind |-> "Timeout", status_code |-> 504])]
    /\ stage' = [stage EXCEPT ![r] = "done"]
    /\ UNCHANGED <<worker_vars, limit, maxsize, batch_size, q, total_requests, total_rejections,
                   total_timeouts, clock, enqueue_ts, nfired, pc, batch, last,
                   encode_raised, put_after_raise, admitted, encode_calls,
                   metrics>>

\* a timeout that takes the request out of the queue
InferTimeoutDequeues(r) ==
    /\ stage[r] = "waiting"
    /\ ~done(future[r])
    /\ future' = [future EXCEPT ![r].state = "cancelled"]
    /\ delivered' = [delivered EXCEPT
                       ![r] = Append(delivered[r],
                                     [kind |-> "Timeout", status_code |-> 504])]
    /\ stage' = [stage EXCEPT ![r] = "done"]
    /\ metrics' = [metrics EXCEPT !.timeout = metrics.timeout + 1]
    /\ q' = SelectSeq(q, LAMBDA x : x # r)
    /\ UNCHANGED <<worker_vars, limit, maxsize, batch_size, total_requests,
                   total_rejections, total_timeouts, clock, enqueue_ts, nfired,
                   pc, batch, last, encode_raised, put_after_raise, admitted,
                   encode_calls>>

\* ModelWorker.infer resumed by the timeout of wait_for: the pending future
\* is cancelled and the request stays where it is (queue or batch).
InferTimeout(r) ==
    /\ stage[r] = "waiting"
    /\ ~done(future[r])
    /\ future' = [future EXCEPT ![r].state = "cancelled"]
    /\ delivered' = [delivered EXCEPT
                       ![r] = Append(delivered[r],
                                     [kind |-> "Timeout", status_code |-> 504])]
    /\ metrics' = [metrics EXCEPT !.timeout = metrics.timeout + 1]
    /\ stage' = [stage EXCEPT ![r] = "done"]
    /\ UNCHANGED <<worker_vars, limit, maxsize, batch_size, q, total_requests, total_rejections,
                   total_timeouts, clock, enqueue_ts, nfired, pc, batch, last,
                   encode_raised, put_after_raise, admitted, encode_calls>>

\* ------------------------------------------------- RequestQueue.get_batch
\* The first request is taken unconditionally, then more while
\* len(batch) < batch_size and the queue is not empty.
\* fills the batch from its front
RECURSIVE fill_batchReversed(_, _, _)
fill_batchReversed(b, rest, size) ==
    IF Len(b) < size /\ rest # <<>>
    THEN fill_batchReversed(<<Head(rest)>> \o b, Tail(rest), size)
    ELSE [batch |-> b, rest |-> rest]

\* takes one request more than batch_size
RECURSIVE fill_batchOffByOne(_, _, _)
fill_batchOffByOne(b, rest, size) ==
    IF Len(b) <= size /\ rest # <<>>
    THEN fill_batchOffByOne(Append(b, Head(rest)), Tail(rest), size)
    ELSE [batch |-> b, rest |-> rest]

RECURSIVE fill_batch(_, _, _)
fill_batch(b, rest, size) ==
    IF Len(b) < size /\ rest # <<>>
    THEN fill_batch(Append(b, Head(rest)), Tail(rest), size)
    ELSE [batch |-> b, rest |-> rest]

\* a drain that loses what it leaves behind
take_batchLosesRest(queue, size) ==
    [batch |-> fill_batch(<<Head(queue)>>, Tail(queue), size).batch,
     rest |-> <<>>]

take_batch(queue, size) ==
    fill_batch(<<Head(queue)>>, Tail(queue), size)

\* a non-empty drain that counts a timeout
GetBatchCountsTimeout ==
    /\ pc = "get_batch"
    /\ q # <<>>
    /\ LET t == take_batch(q, batch_size) IN
         /\ batch' = t.batch
         /\ q' = t.rest
    /\ pc' = "encode"
    /\ total_timeouts' = total_timeouts + 1
    /\ UNCHANGED <<worker_vars, limit, maxsize, batch_size, total_requests, total_rejections,
                   clock, enqueue_ts, stage, future, nfired,
                   delivered, last, encode_raised, put_after_raise, metrics,
                   admitted, encode_calls>>

\* a drain that leaves the requests of its batch in the queue
GetBatchKeepsQueue ==
    /\ pc = "get_batch"
    /\ q # <<>>
    /\ batch' = take_batch(q, batch_size).batch
    /\ pc' = "encode"
    /\ UNCHANGED <<worker_vars, limit, maxsize, batch_size, q, total_requests,
                   total_rejections, total_timeouts, clock, enqueue_ts, stage,
                   future, nfired, delivered, last, encode_raised,
                   put_after_raise, metrics, admitted, encode_calls>>

\* _scheduler resumed from get_batch with a non-empty batch
GetBatch ==
    /\ pc = "get_batch"
    /\ q # <<>>
    /\ LET t == take_batch(q, batch_size) IN
         /\ batch' = t.batch
         /\ q' = t.rest
    /\ pc' = "encode"
    /\ UNCHANGED <<worker_vars, limit, maxsize, batch_size, total_requests, total_rejections,
                   total_timeouts, clock, enqueue_ts, stage, future, nfired,
                   delivered, last, encode_raised, put_after_raise, metrics,
                   admitted, encode_calls>>

\* a timeout of get_batch although a request is waiting
DrainTimeoutIgnoresQueue ==
    /\ pc = "get_batch"
    /\ total_timeouts < MaxDrainTimeouts
    /\ total_timeouts' = total_timeouts + 1
    /\ UNCHANGED <<worker_vars, limit, maxsize, batch_size, q, total_requests, total_rejections,
                   clock, enqueue_ts, stage, future, nfired, delivered, pc,
                   batch, last, encode_raised, put_after_raise, metrics,
                   admitted, encode_calls>>

\* an empty drain that records a batch-size observation
DrainTimeoutObserves ==
    /\ pc = "get_batch"
    /\ q = <<>>
    /\ total_timeouts < MaxDrainTimeouts
    /\ total_timeouts' = total_timeouts + 1
    /\ metrics' = [metrics EXCEPT !.batch_sizes = Append(metrics.batch_sizes, 0)]
    /\ UNCHANGED <<worker_vars, limit, maxsize, batch_size, q, total_requests,
                   total_rejections, clock, enqueue_ts, stage, future, nfired,
                   delivered, pc, batch, last, encode_raised, put_after_raise,
                   admitted, encode_calls>>

\* get_batch times out on the empty queue; _scheduler continues its loop
DrainTimeout ==
    /\ pc = "get_batch"
    /\ q = <<>>
    /\ total_timeouts < MaxDrainTimeouts
    /\ total_timeouts' = total_timeouts + 1
    /\ UNCHANGED <<worker_vars, limit, maxsize, batch_size, q, total_requests, total_rejections,
                   clock, enqueue_ts, stage, future, nfired, delivered, pc,
                   batch, last, encode_raised, put_after_raise, metrics,
                   admitted, encode_calls>>

\* ------------------------------------------------ ModelWorker._scheduler
\* model.encode: what it returns for one payload (the model preserves order)
embedding(p) == <<"emb", p[2]>>

\* [r.payload for r in batch]
payloads(b) == [i \in 1..Len(b) |-> payload(b[i])]

\* The lists encode can return for a batch: n outputs, for any n from 0 to
\* one more than the number of payloads; the surplus output is a filler.
encode_outputs(b, n) ==
    [i \in 1..n |-> IF i <= Len(b) THEN embedding(payloads(b)[i])
                                   ELSE <<"emb", 0>>]

\* What one call of encode does: it raises, or it returns n outputs
EncodeResults(b) ==
    {[kind |-> "raise", outputs |-> <<>>]}
    \cup {[kind |-> "ok", outputs |-> encode_outputs(b, n)] : n \in 0..(Len(b) + 1)}

\* InferenceResponse built for position i of the batch
response(b, outputs, i) ==
    [output |-> outputs[i], request_id |-> request_id(b[i]),
     batch_size |-> Len(b)]

\* for req, output in zip(batch, outputs): the pairs end with the shorter list
zip_len(b, outputs) == IF Len(b) < Len(outputs) THEN Len(b) ELSE Len(outputs)

\* The loop over zip(batch, outputs) from position i: set_result on a future
\* that is not pending raises InvalidStateError and ends the loop.
RECURSIVE set_results(_, _, _, _)
set_results(st, b, outputs, i) ==
    IF i > zip_len(b, outputs)
    THEN st
    ELSE IF done(st.future[b[i]])
         THEN [st EXCEPT !.exc = "InvalidStateError"]
         ELSE set_results(
                [st EXCEPT
                   !.future[b[i]] = [state |-> "result",
                                     result |-> response(b, outputs, i),
                                     exception |-> "none"],
                   !.nfired[b[i]] = st.nfired[b[i]] + 1,
                   !.metrics.success = st.metrics.success + 1],
                b, outputs, i + 1)

\* except Exception as e: set_exception(e) on every future of the batch that
\* is not done, and one record_error("processing_error") for each of them.
RECURSIVE fail_batchOverwrite(_, _, _, _)
fail_batchOverwrite(st, b, e, i) ==
    IF i > Len(b)
    THEN st
    ELSE fail_batchOverwrite(
                [st EXCEPT
                   !.future[b[i]] = [state |-> "exception",
                                     result |-> st.future[b[i]].result,
                                     exception |-> e],
                   !.nfired[b[i]] = st.nfired[b[i]] + 1,
                   !.metrics.processing_error = st.metrics.processing_error + 1],
                b, e, i + 1)

\* fails the first request of the batch only
fail_batchFirstOnly(st, b, e, i) ==
    IF Len(b) = 0 \/ done(st.future[b[1]])
    THEN st
    ELSE [st EXCEPT
            !.future[b[1]] = [state |-> "exception", result |-> NoResponse,
                              exception |-> e],
            !.nfired[b[1]] = st.nfired[b[1]] + 1,
            !.metrics.processing_error = st.metrics.processing_error + 1]

RECURSIVE fail_batch(_, _, _, _)
fail_batch(st, b, e, i) ==
    IF i > Len(b)
    THEN st
    ELSE IF done(st.future[b[i]])
         THEN fail_batch(st, b, e, i + 1)
         ELSE fail_batch(
                [st EXCEPT
                   !.future[b[i]] = [state |-> "exception",
                                     result |-> NoResponse,
                                     exception |-> e],
                   !.nfired[b[i]] = st.nfired[b[i]] + 1,
                   !.metrics.processing_error = st.metrics.processing_error + 1],
                b, e, i + 1)

\* The inner try of _scheduler for one result of encode
process_batch(st, b, res) ==
    IF res.kind = "raise"
    THEN fail_batch(st, b, "EncodeError", 1)
    ELSE LET after == set_results(st, b, res.outputs, 1) IN
           IF after.exc = "none"
           THEN after
           ELSE fail_batch(after, b, after.exc, 1)

\* two observations for one batch
record_batchTwice(m, size) ==
    [m EXCEPT !.batch_sizes = Append(Append(m.batch_sizes, size), size)]

\* MetricsCollector.record_batch: one observation of the batch size
record_batch(m, size) == [m EXCEPT !.batch_sizes = Append(m.batch_sizes, size)]

\* Where the _scheduler task is after the inner except branch: the while
\* loop goes on.
after_failureExits == "exited"
after_failure == "get_batch"

\* _scheduler from the return of get_batch to the next get_batch: encode and
\* the delivery loops run without a suspension point.
Encode ==
    /\ pc = "encode"
    /\ \E res \in EncodeResults(batch) :
         LET st == process_batch(
                     [future |-> future, nfired |-> nfired,
                      metrics |-> record_batch(metrics, Len(batch)),
                      exc |-> "none"],
                     batch, res)
             failed == res.kind = "raise" \/ st.exc # "none"
         IN
           /\ future' = st.future
           /\ nfired' = st.nfired
           /\ metrics' = st.metrics
           /\ last' = [batch |-> batch, kind |-> res.kind,
                       outputs |-> res.outputs]
           /\ encode_raised' = (encode_raised \/ res.kind = "raise")
           /\ pc' = IF failed THEN after_failure ELSE "get_batch"
    /\ encode_calls' = Append(encode_calls, payloads(batch))
    /\ batch' = <<>>
    /\ UNCHANGED <<worker_vars, limit, maxsize, batch_size, q, total_requests, total_rejections,
                   total_timeouts, clock, enqueue_ts, stage, delivered,
                   put_after_raise, admitted>>

\* ------------------------------------------------------------ API.infer
\* The HTTP status API.infer answers with for what worker.infer returned or
\* raised: QueueFullError has its own except branch; the HTTPException(504)
\* of the timeout and every other exception reach "except Exception".
http_status(d) ==
    CASE d.kind = "Response" -> 200
      [] d.kind \in {"InvalidImage", "InvalidRequest"} -> 400
      [] d.kind = "QueueFull" -> 429
      [] OTHER -> 500

\* ------------------------------------------------------------ the system
SchedulerNext == GetBatch \/ DrainTimeout \/ Encode

Next ==
    \/ \E r \in Requests : CreateRequest(r)
    \/ \E r \in Requests : InferPut(r)
    \/ \E r \in Requests : InferReturn(r)
    \/ \E r \in Requests : InferTimeout(r)
    \/ GetBatch
    \/ DrainTimeout
    \/ Encode

Spec == Init /\ [][Next]_vars

\* The event loop runs every task that is ready: the scheduler task is not
\* starved.
FairSpec == Spec /\ WF_vars(SchedulerNext)

\* The overflow runs: a bounded queue, a positive batch size, more callers
\* than the queue holds; the callers stay suspended on their futures and
\* get_batch does not time out.
OverflowInit ==
    /\ limit = OverflowRequests
    /\ maxsize \in 1..MaxCapacity
    /\ batch_size \in 1..MaxBatchSize
    /\ InitState
    /\ Constructed

OverflowNext ==
    \/ \E r \in Requests : CreateRequest(r)
    \/ \E r \in Requests : InferPut(r)
    \/ GetBatch
    \/ Encode

OverflowSpec == OverflowInit /\ [][OverflowNext]_vars

\* ------------------------------------------------ ModelWorker.__init__
\* The state of the queue, the callers and the scheduler
serving_vars == <<limit, maxsize, q, total_requests, total_rejections,
                  total_timeouts, clock, enqueue_ts, stage, future, nfired,
                  delivered, pc, batch, last, encode_raised, put_after_raise,
                  metrics, admitted, encode_calls>>

\* The waits model.batch_wait_s() can return; 1 stands for a positive wait
Waits == {-1, 0, 1}

\* a step whose failure is ignored
init_stepIgnoresFailure(step, ok, next) ==
    /\ init_pc = step
    /\ init_pc' = next
    /\ init_log' = IF ok THEN Append(init_log, step) ELSE init_log
    /\ UNCHANGED <<warmup_enabled, lifespan, sched_errors>>

\* One step of __init__: it succeeds and __init__ goes on, or it raises and
\* the exception leaves __init__ (the except branch logs and re-raises).
init_step(step, ok, next) ==
    /\ init_pc = step
    /\ IF ok
       THEN init_pc' = next /\ init_log' = Append(init_log, step)
       ELSE init_pc' = "failed" /\ init_log' = init_log
    /\ UNCHANGED <<warmup_enabled, lifespan, sched_errors>>

\* load_model(model_directory)
LoadModel ==
    /\ \E ok \in BOOLEAN : init_step("load_model", ok, "validate_model_interface")
    /\ UNCHANGED <<batch_size, batch_wait, serving_vars>>

\* validate_model_interface(self.model)
ValidateInterface ==
    /\ \E ok \in BOOLEAN :
           init_step("validate_model_interface", ok, "MetricsCollector")
    /\ UNCHANGED <<batch_size, batch_wait, serving_vars>>

\* MetricsCollector(name) and record_model_load
InitMetrics ==
    /\ \E ok \in BOOLEAN : init_step("MetricsCollector", ok, "load")
    /\ UNCHANGED <<batch_size, batch_wait, serving_vars>>

\* self.model.load(), followed by the test of config.models.warmup_enabled
LoadWeights ==
    /\ \E ok \in BOOLEAN :
           init_step("load", ok,
                     IF warmup_enabled THEN "warmup" ELSE "batch_config")
    /\ UNCHANGED <<batch_size, batch_wait, serving_vars>>

\* self.model.warmup() and record_model_warmup
Warmup ==
    /\ \E ok \in BOOLEAN : init_step("warmup", ok, "batch_config")
    /\ UNCHANGED <<batch_size, batch_wait, serving_vars>>

\* self.batch_size = self.model.batch_size(); self.batch_wait =
\* self.model.batch_wait_s(): the values of the model are taken as they are.
\* When batch_wait_s() raises, batch_size is already assigned.
BatchConfig ==
    /\ \E ok \in BOOLEAN, b \in 0..MaxBatchSize, w \in Waits :
           /\ init_step("batch_config", ok, "RequestQueue")
           /\ IF ok
              THEN batch_size' = b /\ batch_wait' = w
              ELSE batch_size' \in {batch_size, b} /\ batch_wait' = batch_wait
    /\ UNCHANGED serving_vars

\* self.queue = RequestQueue(maxsize=config.server.max_queue_size)
CreateQueue ==
    /\ init_step("RequestQueue", TRUE, "create_task")
    /\ UNCHANGED <<batch_size, batch_wait, serving_vars>>

\* self._scheduler_task = asyncio.create_task(self._scheduler()); the replica
\* takes calls of infer once __init__ has returned.
StartScheduler ==
    /\ init_step("create_task", TRUE, "ready")
    /\ UNCHANGED <<batch_size, batch_wait, serving_vars>>

\* ------------------------------------------------ API.infer: validation
\* config.security.max_upload_size_mb
max_upload_size_mb == 10

\* The uploads: content type as <<type, subtype>> (<<>> when missing), the
\* size of the upload, what the bytes are, and width * height * channels of
\* the decoded image, both sizes in MB.
Uploads ==
    {u \in [content_type : {<<>>, <<"text", "plain">>, <<"image", "png">>},
            size_mb : {0, max_upload_size_mb, max_upload_size_mb + 1},
            content : {"empty", "garbage", "image"},
            estimated_size_mb : {max_upload_size_mb, max_upload_size_mb + 1}] :
        (u.content = "empty") <=> (u.size_mb = 0)}

\* validation that lets an oversized image pass
validateNoImageSize(u) ==
    IF u.content_type = <<>> \/ Head(u.content_type) # "image"
    THEN [kind |-> "InvalidRequest", cause |-> "content_type"]
    ELSE IF u.size_mb > max_upload_size_mb
    THEN [kind |-> "InvalidRequest", cause |-> "upload_size"]
    ELSE IF u.content # "image"
    THEN [kind |-> "InvalidImage", cause |-> "decode_image"]
    ELSE [kind |-> "ok", cause |-> "none"]

\* The checks of API.infer before the InferenceRequest is constructed, in
\* the order of the code: content type, upload size, decode_image,
\* validate_image_size.
validate(u) ==
    IF u.content_type = <<>> \/ Head(u.content_type) # "image"
    THEN [kind |-> "InvalidRequest", cause |-> "content_type"]
    ELSE IF u.size_mb > max_upload_size_mb
    THEN [kind |-> "InvalidRequest", cause |-> "upload_size"]
    ELSE IF u.content # "image"
    THEN [kind |-> "InvalidImage", cause |-> "decode_image"]
    ELSE IF u.estimated_size_mb > max_upload_size_mb
    THEN [kind |-> "InvalidImage", cause |-> "validate_image_size"]
    ELSE [kind |-> "ok", cause |-> "none"]

\* API.infer for an upload that fails a check: the exception is raised before
\* worker.infer is called and the except branches answer it.
IngressReject(r) ==
    /\ stage[r] = "new"
    /\ r <= limit
    /\ \A o \in Requests : o < r => stage[o] # "new"
    /\ \E u \in Uploads :
           /\ validate(u).kind # "ok"
           /\ delivered' = [delivered EXCEPT
                              ![r] = Append(delivered[r], validate(u))]
    /\ stage' = [stage EXCEPT ![r] = "done"]
    /\ UNCHANGED <<worker_vars, limit, maxsize, batch_size, q, total_requests,
                   total_rejections, total_timeouts, clock, enqueue_ts, future,
                   nfired, pc, batch, last, encode_raised, put_after_raise,
                   metrics, admitted, encode_calls>>

\* ------------------------------------------- get_batch with a wait <= 0
\* a timeout that is counted twice
DrainTimeoutNoWaitTwice ==
    /\ pc = "get_batch"
    /\ batch_wait <= 0
    /\ total_timeouts < MaxDrainTimeouts
    /\ total_timeouts' = total_timeouts + 2
    /\ UNCHANGED <<worker_vars, limit, maxsize, batch_size, q, total_requests,
                   total_rejections, clock, enqueue_ts, stage, future, nfired,
                   delivered, pc, batch, last, encode_raised, put_after_raise,
                   metrics, admitted, encode_calls>>

\* asyncio.wait_for(self.q.get(), timeout_s) with timeout_s <= 0. On an empty
\* queue it raises TimeoutError at once. On a non-empty queue the outcome
\* depends on the Python version: up to 3.11 wait_for cancels the get before
\* it has run and raises TimeoutError, from 3.12 the get returns the head
\* (GetBatch). This action is the TimeoutError outcome.
DrainTimeoutNoWait ==
    /\ pc = "get_batch"
    /\ batch_wait <= 0
    /\ total_timeouts < MaxDrainTimeouts
    /\ total_timeouts' = total_timeouts + 1
    /\ UNCHANGED <<worker_vars, limit, maxsize, batch_size, q, total_requests,
                   total_rejections, clock, enqueue_ts, stage, future, nfired,
                   delivered, pc, batch, last, encode_raised, put_after_raise,
                   metrics, admitted, encode_calls>>

\* ----------------------------------------------------------- lifespan
\* The lifespan manager after its yield: it logs and returns. Nothing of
\* the worker, its queue or its waiters is touched.
Shutdown ==
    /\ init_pc = "ready"
    /\ lifespan = "running"
    /\ lifespan' = "stopped"
    /\ UNCHANGED <<init_pc, init_log, warmup_enabled, batch_wait, sched_errors,
                   batch_size,
                   serving_vars>>

\* ------------------------------------- from construction to shutdown
\* The worker before __init__ runs: batch_size and batch_wait hold the
\* configured defaults; pc is where the _scheduler task starts once created.
ServiceInit ==
    /\ limit = ServiceRequests
    /\ maxsize \in 1..MaxCapacity
    /\ batch_size \in 1..MaxBatchSize
    /\ batch_wait = 1
    /\ warmup_enabled \in BOOLEAN
    /\ init_pc = "load_model"
    /\ init_log = <<>>
    /\ lifespan = "running"
    /\ InitState

\* __init__ has returned
Ready == init_pc = "ready"

ServiceNext ==
    \/ LoadModel
    \/ ValidateInterface
    \/ InitMetrics
    \/ LoadWeights
    \/ Warmup
    \/ BatchConfig
    \/ CreateQueue
    \/ StartScheduler
    \/ Ready /\ \E r \in Requests : CreateRequest(r)
    \/ Ready /\ \E r \in Requests : IngressReject(r)
    \/ Ready /\ \E r \in Requests : InferPut(r)
    \/ Ready /\ \E r \in Requests : InferReturn(r)
    \/ Ready /\ \E r \in Requests : InferTimeout(r)
    \/ Ready /\ batch_wait > 0 /\ DrainTimeout
    \/ Ready /\ DrainTimeoutNoWait
    \/ Ready /\ GetBatch
    \/ Ready /\ Encode
    \/ Shutdown

ServiceSpec == ServiceInit /\ [][ServiceNext]_vars

\* ------------------------------------- _scheduler: the outer except
\* Where the _scheduler task is after the outer except branch has caught an
\* exception: in asyncio.sleep(0.1), inside the while loop.
after_scheduler_errorExits == "exited"
after_scheduler_error == "sleep"

\* update_queue_depth or record_batch raises for a drained batch. The calls
\* are outside the inner try: the exception reaches the outer except branch
\* and the local variable batch is gone with the iteration. record_batch may
\* have made its batch-size observation before it raised.
BatchMetricsError ==
    /\ pc = "encode"
    /\ sched_errors < MaxSchedulerErrors
    /\ sched_errors' = sched_errors + 1
    /\ metrics' \in {metrics, record_batch(metrics, Len(batch))}
    /\ batch' = <<>>
    /\ pc' = after_scheduler_error
    /\ UNCHANGED <<init_pc, init_log, warmup_enabled, batch_wait, lifespan,
                   limit, maxsize, batch_size, q, total_requests,
                   total_rejections, total_timeouts, clock, enqueue_ts, stage,
                   future, nfired, delivered, last, encode_raised,
                   put_after_raise, admitted, encode_calls>>

\* asyncio.sleep(0.1) returns and the while loop calls get_batch again
SchedulerWake ==
    /\ pc = "sleep"
    /\ pc' = "get_batch"
    /\ UNCHANGED <<worker_vars, limit, maxsize, batch_size, q, total_requests,
                   total_rejections, total_timeouts, clock, enqueue_ts, stage,
                   future, nfired, delivered, batch, last, encode_raised,
                   put_after_raise, metrics, admitted, encode_calls>>

\* The runs with failing metric calls: a bounded queue, a positive batch
\* size, callers that keep waiting, and at most MaxSchedulerErrors failures.
FaultInit ==
    /\ limit = FaultRequests
    /\ maxsize \in 1..MaxCapacity
    /\ batch_size \in 1..MaxBatchSize
    /\ InitState
    /\ Constructed

FaultNext ==
    \/ \E r \in Requests : CreateRequest(r)
    \/ \E r \in Requests : InferPut(r)
    \/ \E r \in Requests : InferReturn(r)
    \/ GetBatch
    \/ Encode
    \/ BatchMetricsError
    \/ SchedulerWake

\* The event loop runs the scheduler task when it is ready and ends its sleep
FaultSpec ==
    FaultInit /\ [][FaultNext]_vars /\ WF_vars(GetBatch \/ Encode \/ SchedulerWake)

\* The unbounded runs: max_queue_size <= 0
UnboundedInit ==
    /\ limit = NumRequests
    /\ maxsize \in {-1, 0}
    /\ batch_size \in 1..MaxBatchSize
    /\ InitState
    /\ Constructed

UnboundedSpec == UnboundedInit /\ [][Next]_vars

\* The runs with waiters that give up: a bounded queue, a positive batch
\* size, no drain timeouts; the event loop runs the scheduler task when it
\* is ready.
AbandonInit ==
    /\ limit = NumRequests
    /\ maxsize \in 1..MaxCapacity
    /\ batch_size \in 1..MaxBatchSize
    /\ InitState
    /\ Constructed

AbandonNext ==
    \/ \E r \in Requests : CreateRequest(r)
    \/ \E r \in Requests : InferPut(r)
    \/ \E r \in Requests : InferReturn(r)
    \/ \E r \in Requests : InferTimeout(r)
    \/ GetBatch
    \/ Encode

AbandonSpec ==
    AbandonInit /\ [][AbandonNext]_vars /\ WF_vars(GetBatch \/ Encode)

\* ================================================================ claims
\* A step in which the caller of r runs queue.put
PutStepOf(r) == stage[r] = "created" /\ stage'[r] # "created"
PutStep == \E r \in Requests : PutStepOf(r)

\* A bounded queue and a positive batch size
UsualConfig == maxsize >= 1 /\ batch_size >= 1

\* The last finished batch got as many outputs as it had requests
LastMatched == last.kind = "ok" /\ Len(last.outputs) = Len(last.batch)

\* C1 (as claimed): once the scheduler has finished a batch, whatever encode
\* did, every request of that batch has had its completion signal fired (or
\* was abandoned by its waiter); no batched request is dropped unfired.
C1_BatchedRequestsAreFired ==
    (UsualConfig /\ pc = "get_batch" /\ last.kind # "none")
        => \A r \in Range(last.batch) : done(future[r])

\* C2: a completion signal is fired at most once and the caller of infer gets
\* at most one outcome, exactly one once infer has ended; the outcome agrees
\* with the future: a Response with its result, an Error with its exception,
\* a Timeout with a cancelled future that was never fired.
C2_ExactlyOneOutcome ==
    \A r \in Requests :
        /\ nfired[r] <= 1
        /\ Len(delivered[r]) <= 1
        /\ (stage[r] = "done") <=> (Len(delivered[r]) = 1)
        /\ (future[r].state \in {"result", "exception"}) <=> (nfired[r] = 1)
        /\ delivered[r] # <<>> =>
             LET d == delivered[r][1] IN
               /\ d.kind = "Response" =>
                    future[r].state = "result" /\ d.value = future[r].result
               /\ d.kind = "Error" =>
                    future[r].state = "exception" /\ d.cause = future[r].exception
               /\ d.kind = "Timeout" => future[r].state = "cancelled"
               /\ d.kind = "QueueFull" => future[r].state = "pending"

C2_Witness ==
    /\ Len(last.batch) = 2
    /\ \E r \in Range(last.batch) :
           delivered[r] # <<>> /\ delivered[r][1].kind = "Timeout"
    /\ \E r \in Range(last.batch) :
           delivered[r] # <<>> /\ delivered[r][1].kind = "Response"

\* C3 (as claimed): the queue depth is at most the configured capacity.
C3_DepthAtMostCapacity == depth <= maxsize

\* C3 (amended): with a configured capacity of at least 1 the queue depth is
\* at most the capacity in every reachable state.
C3_DepthAtMostPositiveCapacity == maxsize >= 1 => depth <= maxsize

C3_Witness == maxsize >= 1 /\ depth = maxsize /\ total_rejections >= 1

\* C4 (as claimed): put at depth = capacity fails with QueueFull carrying the
\* depth and leaves the queue and total_requests unchanged; any other put
\* appends at the tail and adds exactly 1 to total_requests.
C4_PutAtCapacityFails ==
    [][\A r \in Requests : PutStepOf(r) =>
         IF depth = maxsize
         THEN /\ delivered'[r] = <<[kind |-> "QueueFull", queue_depth |-> maxsize]>>
              /\ q' = q
              /\ total_requests' = total_requests
         ELSE /\ q' = Append(q, r)
              /\ total_requests' = total_requests + 1
              /\ stage'[r] = "waiting"]_vars

\* C4 (amended): put never blocks; with capacity >= 1 and depth = capacity it
\* fails with QueueFull carrying the depth (= capacity) and leaves the queue
\* and total_requests unchanged; in every other case (also capacity <= 0) it
\* appends at the tail and adds exactly 1 to total_requests.
C4_PutAtPositiveCapacityFails ==
    [][\A r \in Requests : PutStepOf(r) =>
         IF maxsize >= 1 /\ depth = maxsize
         THEN /\ delivered'[r] = <<[kind |-> "QueueFull", queue_depth |-> maxsize]>>
              /\ stage'[r] = "done"
              /\ q' = q
              /\ total_requests' = total_requests
         ELSE /\ q' = Append(q, r)
              /\ Len(q') = depth + 1
              /\ total_requests' = total_requests + 1
              /\ stage'[r] = "waiting"]_vars

C4_Witness ==
    /\ maxsize >= 1
    /\ total_requests = maxsize
    /\ depth = maxsize
    /\ \E r \in Requests :
         delivered[r] = <<[kind |-> "QueueFull", queue_depth |-> maxsize]>>

\* C5 (as claimed): total_rejections never decreases, and a step adds to it
\* (exactly 1) if and only if the step is a put at depth = capacity.
C5_RejectionIffAtCapacity ==
    [][/\ total_rejections' >= total_rejections
       /\ (total_rejections' # total_rejections) <=> (PutStep /\ depth = maxsize)
       /\ (total_rejections' # total_rejections)
             => total_rejections' = total_rejections + 1]_vars

\* C5 (amended): total_rejections never decreases, and a step adds to it
\* (exactly 1) if and only if the step is a put at depth = capacity with
\* capacity >= 1.
C5_RejectionIffAtPositiveCapacity ==
    [][/\ total_rejections' >= total_rejections
       /\ (total_rejections' # total_rejections)
             <=> (PutStep /\ maxsize >= 1 /\ depth = maxsize)
       /\ (total_rejections' # total_rejections)
             => total_rejections' = total_rejections + 1]_vars

C5_Witness == total_rejections = 1 /\ total_requests >= 1 /\ depth < maxsize

\* C6 (as claimed): every batch handed to encode has between 1 and batch_size
\* requests, with non-decreasing enqueue timestamps.
C6_BatchWithinBatchSize ==
    pc = "encode" =>
        /\ 1 <= Len(batch)
        /\ Len(batch) <= batch_size
        /\ \A i, j \in 1..Len(batch) :
               i < j => enqueue_ts[batch[i]] <= enqueue_ts[batch[j]]

\* C7 (as claimed): after a batch for which encode returned one output per
\* request, the request at position i (unless its waiter had given up) holds
\* a Response with outputs[i], its own request_id and batch_size = |B|.
C7_PositionalResponses ==
    (UsualConfig /\ LastMatched) =>
        \A i \in 1..Len(last.batch) :
            LET r == last.batch[i] IN
              \/ future[r].state = "cancelled"
              \/ /\ future[r].state = "result"
                 /\ future[r].result =
                        [output |-> last.outputs[i],
                         request_id |-> request_id(r),
                         batch_size |-> Len(last.batch)]

\* C8 (as claimed): after a batch for which encode returned fewer or more
\* outputs than requests, every request of the batch has failed and none
\* holds a Response.
C8_MismatchFailsBatch ==
    (UsualConfig /\ last.kind = "ok" /\ Len(last.outputs) # Len(last.batch)) =>
        \A r \in Range(last.batch) :
            future[r].state \in {"exception", "cancelled"}

\* C9: in the step in which encode raises, every request of the batch whose
\* future is still pending gets the exception of encode, every other future
\* is left as it is, and no request of the batch holds a Response.
C9_RaiseFailsWholeBatch ==
    [][(pc = "encode" /\ pc' # "encode" /\ last'.kind = "raise") =>
         \A r \in Range(batch) :
             /\ IF done(future[r])
                THEN future'[r] = future[r]
                ELSE /\ future'[r].state = "exception"
                     /\ future'[r].exception = "EncodeError"
                     /\ nfired'[r] = 1
             /\ future'[r].state # "result"]_vars

C9_Witness ==
    /\ last.kind = "raise"
    /\ Len(last.batch) = 2
    /\ \A r \in Range(last.batch) :
           future[r].state = "exception" /\ future[r].exception = "EncodeError"

\* C10: after an encode call has raised, the scheduler still serves: a request
\* enqueued afterwards is eventually drained and encoded, and when encode
\* returns one output per request for a batch without abandoned requests, it
\* holds a Response.
C10_ServesAfterProcessingError ==
    /\ \A r \in 1..NumRequests :
           (r \in put_after_raise /\ r \in Range(q)) ~> (r \in Range(last.batch))
    /\ [](\A r \in put_after_raise :
            (/\ r \in Range(last.batch)
             /\ LastMatched
             /\ \A o \in Range(last.batch) : future[o].state # "cancelled")
                => future[r].state = "result")

C10_Witness ==
    \E r \in put_after_raise :
        /\ r \in Range(last.batch)
        /\ delivered[r] # <<>>
        /\ delivered[r][1].kind = "Response"
        /\ \E o \in Requests : future[o].exception = "EncodeError"

\* ---------------------------------------------------------------- C11..C20
\* what request r's caller got is of kind k
Got(r, k) == delivered[r] # <<>> /\ delivered[r][1].kind = k

TimedOut == {r \in Requests : Got(r, "Timeout")}

Rejected == {r \in Requests : Got(r, "QueueFull")}

\* the requests whose put has run
Attempted == {r \in Requests : stage[r] \in {"waiting", "done"}}

\* the requests of the encode calls made so far, in call order
RECURSIVE Encoded(_)
Encoded(calls) ==
    IF calls = <<>>
    THEN <<>>
    ELSE [i \in 1..Len(calls[1]) |-> calls[1][i][2]] \o Encoded(Tail(calls))

MinOf(a, b) == IF a <= b THEN a ELSE b

\* a step of the scheduler's call to get_batch
DrainStep == pc = "get_batch" /\ (pc' # pc \/ total_timeouts' # total_timeouts)

\* C11: completing the signal of a request whose caller has timed out has no
\* effect and raises nothing: when encode returned one output per request for
\* a batch that holds a timed-out request, every other request of the batch
\* has its response.
C11_LateCompletionIsDiscarded ==
    (UsualConfig /\ LastMatched /\ Range(last.batch) \cap TimedOut # {})
        => \A r \in Range(last.batch) \ TimedOut : future[r].state = "result"

\* C12: a request whose completion signal did not fire within the request
\* timeout gets a Timeout from infer, its signal never fires, and the
\* timeout error count goes up by one for each such request.
C12_TimeoutIsCountedOnce ==
    /\ \A r \in Requests :
           /\ Got(r, "Timeout") =>
                  /\ nfired[r] = 0
                  /\ future[r].state = "cancelled"
                  /\ Len(delivered[r]) = 1
           /\ (stage[r] = "done" /\ future[r].state = "cancelled")
                  => Got(r, "Timeout")
    /\ metrics.timeout = Cardinality(TimedOut)

C12_Witness ==
    \E r \in TimedOut :
        /\ r \in Range(last.batch)
        /\ metrics.timeout = 1
        /\ \E o \in Range(last.batch) : Got(o, "Response")

\* C13: a rejected request is never in the queue, in a batch or among the
\* payloads of an encode call, its completion signal never fires, it is
\* counted once as a queue rejection and its HTTP status is 429.
C13_RejectedIsNeverProcessed ==
    /\ \A r \in Rejected :
           /\ r \notin Range(q)
           /\ r \notin Range(batch)
           /\ r \notin Range(last.batch)
           /\ r \notin Range(admitted)
           /\ \A i \in 1..Len(encode_calls) :
                  payload(r) \notin Range(encode_calls[i])
           /\ future[r] = PendingFuture
           /\ nfired[r] = 0
           /\ Len(delivered[r]) = 1
           /\ http_status(delivered[r][1]) = 429
    /\ metrics.queue_rejections = Cardinality(Rejected)
    /\ total_rejections = Cardinality(Rejected)

C13_Witness ==
    /\ Cardinality(Rejected) = 1
    /\ metrics.queue_rejections = 1
    /\ \E o \in Requests : Got(o, "Response")

\* C14: the requests of the encode calls, followed by the batch in hand,
\* followed by the queue, are the admitted requests in admission order.
C14_DrainsInAdmissionOrder ==
    Encoded(encode_calls) \o batch \o q = admitted

C14_Witness ==
    /\ Len(admitted) = 2
    /\ admitted[1] > admitted[2]
    /\ Len(encode_calls) = 2

\* C15: a drain called with k >= 1 queued requests and batch size b >= 1
\* returns the min(k, b) oldest of them in order and leaves the other
\* k - min(k, b) in the queue in order.
C15_DrainTakesMinOldest ==
    [][(pc = "get_batch" /\ pc' = "encode" /\ batch_size >= 1)
          => LET k == Len(q)
                 n == MinOf(k, batch_size) IN
               /\ k >= 1
               /\ batch' = SubSeq(q, 1, n)
               /\ q' = SubSeq(q, n + 1, k)]_vars

C15_Witness ==
    /\ pc = "encode"
    /\ batch_size = 1
    /\ Len(batch) = 1
    /\ Len(q) = 1
    /\ admitted = batch \o q

C17_DrainReturnsWaitingRequest ==
    /\ [][(DrainStep /\ q # <<>>)
             => /\ pc' = "encode"
                /\ Head(q) \in Range(batch')
                /\ total_timeouts' = total_timeouts]_vars
    /\ \A r \in 1..NumRequests :
           (pc = "get_batch" /\ q # <<>> /\ Head(q) = r)
               ~> (pc = "encode" /\ r \in Range(batch))

C17_Witness ==
    /\ pc = "encode"
    /\ encode_calls = <<>>
    /\ total_timeouts = 0
    /\ total_requests = 1
    /\ Len(batch) = 1

\* C18 as stated, with the burst as large as the batch size: batch_size
\* requests admitted with no drain timeout in between that all have their
\* response have been served by one encode call with one batch-size
\* observation.
C18_BurstServedByOneEncode ==
    (/\ batch_size >= 2
     /\ Len(admitted) = batch_size
     /\ total_rejections = 0
     /\ total_timeouts = 0
     /\ pc = "get_batch"
     /\ q = <<>>
     /\ \A r \in Range(admitted) : Got(r, "Response"))
        => /\ Len(encode_calls) = 1
           /\ Len(encode_calls[1]) = batch_size
           /\ metrics.batch_sizes = <<batch_size>>

\* C18: batch_size requests that are all in the queue when the drain returns
\* make one batch, and every batch is served by one encode call with its
\* payloads and one batch-size observation of its size.
C18_QueuedBurstServedByOneEncode ==
    [][/\ (pc = "get_batch" /\ pc' = "encode" /\ batch_size >= 1
              /\ Len(q) = batch_size)
          => (batch' = q /\ q' = <<>>)
       /\ (pc = "encode" /\ pc' # "encode")
          => /\ encode_calls' = Append(encode_calls, payloads(batch))
             /\ metrics'.batch_sizes = Append(metrics.batch_sizes, Len(batch))
       /\ pc' = pc
          => /\ encode_calls' = encode_calls
             /\ metrics'.batch_sizes = metrics.batch_sizes]_vars

C18_Witness ==
    /\ batch_size = 2
    /\ Len(admitted) = 2
    /\ encode_calls = <<payloads(admitted)>>
    /\ metrics.batch_sizes = <<2>>

\* C19 as stated: with capacity 2 and 4 puts while no batch has finished,
\* exactly 2 are admitted and 2 are rejected.
C19_ExactlyCapacityAdmitted ==
    (/\ maxsize = 2
     /\ limit = 4
     /\ last.kind = "none"
     /\ Cardinality(Attempted) = limit)
        => /\ total_requests = 2
           /\ total_rejections = 2
           /\ metrics.queue_rejections = 2

\* C19: when all puts have run and no batch has finished, every put was
\* admitted or rejected, every rejection is counted once, and the admitted
\* are at least the capacity and at most the capacity plus the batch that
\* was drained in between.
C19_CapacityPlusDrainedAdmitted ==
    (last.kind = "none" /\ Cardinality(Attempted) = limit)
        => /\ total_requests + total_rejections = limit
           /\ metrics.queue_rejections = total_rejections
           /\ Cardinality(Rejected) = total_rejections
           /\ total_requests >= maxsize
           /\ total_requests <= maxsize + Len(batch)
           /\ total_requests = Len(batch) + Len(q)

C19_Witness ==
    /\ maxsize = 2
    /\ last.kind = "none"
    /\ Cardinality(Attempted) = limit
    /\ pc = "encode"
    /\ total_requests = 2
    /\ total_rejections = limit - 2

\* C20: with capacity 1 the drain that hands the one queued request to
\* encode leaves the queue empty; while encode runs, a put to the empty
\* queue is admitted and a put to the queue of one request is rejected.
C20_DrainFreesCapacity ==
    [][maxsize = 1
          => /\ (pc = "get_batch" /\ pc' = "encode")
                => (Len(batch') = 1 /\ q' = <<>>)
             /\ \A r \in Requests :
                   (pc = "encode" /\ stage[r] = "created"
                        /\ stage'[r] # "created")
                      => IF q = <<>>
                         THEN q' = <<r>> /\ stage'[r] = "waiting"
                         ELSE q' = q /\ Got(r, "QueueFull")']_vars

C20_Witness ==
    /\ maxsize = 1
    /\ pc = "encode"
    /\ last.kind = "none"
    /\ Len(batch) = 1
    /\ Len(q) = 1
    /\ admitted = batch \o q
    /\ \E r \in Rejected : r > q[1]

\* ---------------------------------------------------------------- C21..C30
\* a step of the scheduler's call to get_batch, seen from an empty queue
EmptyDrainStep ==
    /\ pc = "get_batch"
    /\ q = <<>>
    /\ (pc' # pc \/ total_timeouts' # total_timeouts \/ batch' # batch)

\* C21: with a wait of 0 a drain called on the empty queue can return in the
\* state it was called in, and when it returns it returns the empty batch,
\* leaves the queue empty and counts one drain timeout.
C21_ZeroWaitDrainOnEmptyQueue ==
    /\ []((Ready /\ batch_wait = 0 /\ pc = "get_batch"
              /\ total_timeouts < MaxDrainTimeouts)
            => ENABLED DrainTimeoutNoWait)
    /\ [][(Ready /\ batch_wait = 0 /\ EmptyDrainStep)
             => /\ total_timeouts' = total_timeouts + 1
                /\ batch' = <<>>
                /\ q' = <<>>
                /\ pc' = "get_batch"]_vars

C21_Witness ==
    /\ Ready
    /\ batch_wait = 0
    /\ pc = "get_batch"
    /\ total_timeouts = 1
    /\ Attempted = {}
    /\ q = <<>>

\* every caller has run its put, the queue is empty and the scheduler holds
\* no batch
Quiescent ==
    /\ Cardinality(Attempted) = limit
    /\ q = <<>>
    /\ batch = <<>>
    /\ pc = "get_batch"

\* the requests whose completion signal was fired
Completed == {r \in Requests : nfired[r] >= 1}

\* C22 (as claimed): at quiescence, when no waiter gave up, the completions
\* are as many as the admitted requests, one for each admitted request, and
\* a response carries the id of its request.
C22_RoundTrip ==
    (UsualConfig /\ Quiescent /\ TimedOut = {})
        => /\ Completed = Range(admitted)
           /\ Cardinality(Completed) = Len(admitted)
           /\ \A r \in Completed :
                  /\ nfired[r] = 1
                  /\ future[r].state = "result"
                         => future[r].result.request_id = request_id(r)

\* C23: the requests of the batch the scheduler holds are not in the queue,
\* no request is queued twice, the scheduler holds requests only from the
\* drain to the end of the delivery, and the queue depth counts the admitted
\* requests that were neither passed to encode nor are held by the scheduler.
C23_InFlightNotQueued ==
    /\ Range(batch) \cap Range(q) = {}
    /\ \A i, j \in 1..Len(q) : q[i] = q[j] => i = j
    /\ \A i, j \in 1..Len(batch) : batch[i] = batch[j] => i = j
    /\ (pc = "encode") <=> (batch # <<>>)
    /\ get_metrics.depth
           = Len(admitted) - Len(Encoded(encode_calls)) - Len(batch)

C23_Witness ==
    /\ pc = "encode"
    /\ batch # <<>>
    /\ q # <<>>
    /\ get_metrics.depth = 1

\* C24 (as claimed): a request whose wait timed out is answered with HTTP
\* status 504.
C24_TimeoutSurfacedAs504 ==
    \A r \in TimedOut : http_status(delivered[r][1]) = 504

\* what the claim calls an upload that fails validation
FailsValidation(u) ==
    \/ u.content_type = <<>>
    \/ u.content_type[1] # "image"
    \/ u.size_mb > max_upload_size_mb
    \/ u.content \in {"empty", "garbage"}
    \/ u.estimated_size_mb > max_upload_size_mb

InvalidAtIngress == {r \in Requests : Got(r, "InvalidRequest") \/ Got(r, "InvalidImage")}

\* C25: an upload with a content type other than image/*, too large,
\* undecodable or decoding to an oversized image fails validation; a request
\* that failed validation is answered with HTTP 400, was never admitted,
\* rejected, batched or encoded, and its answer leaves the queue and the
\* admitted/rejected counters as they were.
C25_InvalidNeverEntersCore ==
    /\ [](\A u \in Uploads : FailsValidation(u) <=> validate(u).kind # "ok")
    /\ [](\A r \in InvalidAtIngress :
              /\ http_status(delivered[r][1]) = 400
              /\ Len(delivered[r]) = 1
              /\ r \notin Range(admitted)
              /\ r \notin Range(q) \cup Range(batch)
              /\ \A i \in 1..Len(encode_calls) :
                     payload(r) \notin Range(encode_calls[i])
              /\ future[r] = PendingFuture)
    /\ [][(\E r \in Requests : stage[r] = "new" /\ stage'[r] = "done")
             => /\ q' = q
                /\ total_requests' = total_requests
                /\ total_rejections' = total_rejections
                /\ metrics' = metrics
                /\ admitted' = admitted]_vars

C25_Witness ==
    \E r \in InvalidAtIngress :
        /\ delivered[r][1].cause = "validate_image_size"
        /\ total_requests = 0
        /\ total_rejections = 0

\* step a of __init__ succeeded before step b
InitBefore(a, b) ==
    \E i, j \in 1..Len(init_log) : i < j /\ init_log[i] = a /\ init_log[j] = b

InitDone(a) == a \in Range(init_log)

\* C26: the queue is created and the scheduler started only after
\* load_model, then validate_model_interface, then (exactly when warmup is
\* enabled) warmup have succeeded; nothing is submitted or drained before
\* the worker is ready; a failed initialisation stays failed and has neither
\* queue nor scheduler.
C26_ReadyOnlyAfterInit ==
    /\ []((InitDone("RequestQueue") \/ InitDone("create_task") \/ Ready)
            => /\ InitBefore("load_model", "validate_model_interface")
               /\ InitBefore("validate_model_interface", "RequestQueue")
               /\ InitDone("warmup") <=> warmup_enabled
               /\ warmup_enabled
                      => /\ InitBefore("validate_model_interface", "warmup")
                         /\ InitBefore("warmup", "RequestQueue")
               /\ InitDone("create_task")
                      => InitBefore("RequestQueue", "create_task"))
    /\ [](Ready <=> InitDone("create_task"))
    /\ [](~Ready => /\ Attempted = {}
                    /\ pc = "get_batch"
                    /\ total_timeouts = 0
                    /\ encode_calls = <<>>)
    /\ [](init_pc = "failed"
            => ~InitDone("RequestQueue") /\ ~InitDone("create_task"))
    /\ [][init_pc = "failed"
             => (init_pc' = "failed" /\ init_log' = init_log)]_vars

C26_Witness ==
    /\ Ready
    /\ ~warmup_enabled
    /\ total_requests = 1
    /\ Len(init_log) = Len(InitSteps(FALSE))

\* C27 (as claimed): once the application has shut down no caller is left
\* waiting on a pending completion signal, and a caller that waited got a
\* Shutdown error.
C27_NoWaiterPendingAfterShutdown ==
    (lifespan = "stopped" /\ batch_size >= 1 /\ batch_wait > 0)
        => \A r \in Requests :
               /\ ~(stage[r] = "waiting" /\ ~done(future[r]))
               /\ (stage[r] = "waiting" /\ done(future[r]))
                      => future[r].exception = "Shutdown"

\* C28 (as claimed): the active batch size of a ready worker is at least 1
\* and its active wait is at least 0.
C28_ActiveBatchConfigValid ==
    Ready => (batch_size >= 1 /\ batch_wait >= 0)

\* C29 (as claimed): a batch whose encode raises adds exactly one to the
\* processing_error count, whatever its size.
C29_ProcessingErrorOncePerBatch ==
    [][(/\ UsualConfig
        /\ pc = "encode"
        /\ pc' # "encode"
        /\ last'.kind = "raise"
        /\ Range(batch) \cap TimedOut = {})
          => metrics'.processing_error = metrics.processing_error + 1]_vars

\* C30 (as claimed): when the scheduler drains the next batch, every request
\* of the batch before it has had its completion signal fired, or was
\* abandoned by its waiter.
C30_NextBatchAfterAllFired ==
    [][(/\ UsualConfig
        /\ pc = "get_batch"
        /\ pc' = "encode"
        /\ last.kind # "none")
          => \A r \in Range(last.batch) :
                 nfired[r] = 1 \/ future[r].state = "cancelled"]_vars

\* ---------------------------------------------------------------- C31..C39
\* a step in which model.encode is called
EncodeCallStep == encode_calls' # encode_calls

\* C31: model.encode is called by the scheduler only, one call at a time: a
\* step that calls it is the scheduler's step from encode back to get_batch,
\* it makes exactly one call, and it is no caller's step.
C31_OnlySchedulerEncodes ==
    [][EncodeCallStep
          => /\ pc = "encode"
             /\ pc' = "get_batch"
             /\ encode_calls' = Append(encode_calls, payloads(batch))
             /\ stage' = stage
             /\ delivered' = delivered]_vars

C31_Witness ==
    /\ Len(encode_calls) = 2
    /\ pc = "get_batch"
    /\ \E r \in Requests : stage[r] = "waiting" /\ done(future[r])

IsEncoded(r) == \E i \in 1..Len(encode_calls) : payload(r) \in Range(encode_calls[i])

\* C33: the scheduler task is always in its loop; after an exception caught
\* by the outer except it sleeps, then calls get_batch again, drains a
\* request that waits in the queue, and once the exceptions have ended
\* passes every queued request to encode.
C33_SchedulerSurvivesErrors ==
    /\ [](pc \in {"get_batch", "encode", "sleep"})
    /\ (pc = "sleep") ~> (pc = "get_batch")
    /\ \A r \in 1..FaultRequests :
           /\ (sched_errors >= 1 /\ r \in Range(q)) ~> (r \in Range(batch))
           /\ (sched_errors = MaxSchedulerErrors /\ r \in Range(q))
                  ~> IsEncoded(r)

C33_Witness ==
    /\ sched_errors >= 1
    /\ Len(admitted) = 2
    /\ ~IsEncoded(admitted[1])
    /\ admitted[1] \notin Range(q) \cup Range(batch)
    /\ IsEncoded(admitted[2])
    /\ Got(admitted[2], "Response")

\* the number of places request r is in: the queue, the batch the scheduler
\* holds, the requests passed to encode
Occurrences(seq, r) == Cardinality({i \in 1..Len(seq) : seq[i] = r})

Places(r) ==
    Occurrences(q, r) + Occurrences(batch, r)
        + Occurrences(Encoded(encode_calls), r)

\* C34: total_requests counts the admitted requests and equals the depth
\* plus the number of requests the drains have returned; an admitted request
\* is in exactly one place, any other request in none.
C34_QueueConservation ==
    /\ total_requests = Len(admitted)
    /\ total_requests
           = depth + Len(batch) + Len(Encoded(encode_calls))
    /\ \A r \in Requests :
           Places(r) = IF r \in Range(admitted) THEN 1 ELSE 0

C34_Witness ==
    /\ total_timeouts = 1
    /\ total_requests = 2
    /\ depth = 1
    /\ Len(encode_calls) = 1
    /\ pc = "get_batch"

\* C35 (as claimed): a request that a drain has returned is held by the
\* scheduler or has been passed to encode, exactly once.
C35_DrainedIsEncodedOnce ==
    \A r \in Range(admitted) :
        r \notin Range(q)
            => (Occurrences(batch, r)
                    + Occurrences(Encoded(encode_calls), r) = 1)

\* C36 (as claimed): delivering the outputs of a successful encode never
\* raises: no completion signal ever holds the InvalidStateError of a
\* set_result on a signal that was not pending.
C36_SetResultOnlyOnPending ==
    UsualConfig
        => \A r \in Requests : future[r].exception # "InvalidStateError"

\* C37: a timeout of the waiter leaves the queue as it is; a timed-out
\* request is in the queue, in the batch held or among the encoded requests
\* and is counted in the depth while queued; and a timed-out request in the
\* queue is eventually passed to encode.
C37_AbandonedRequestStaysQueued ==
    /\ [][\A r \in Requests :
              (~Got(r, "Timeout") /\ Got(r, "Timeout")')
                  => (q' = q /\ batch' = batch
                         /\ total_requests' = total_requests)]_vars
    /\ [](\A r \in TimedOut :
              /\ Places(r) = 1
              /\ r \in Range(q) => depth >= 1)
    /\ \A r \in 1..NumRequests :
           (Got(r, "Timeout") /\ r \in Range(q)) ~> IsEncoded(r)

C37_Witness ==
    \E r \in TimedOut :
        /\ maxsize = 1
        /\ q = <<r>>
        /\ is_full
        /\ Rejected # {}

\* C38: with maxsize <= 0 is_full is never true, no put is rejected, every
\* put appends to the queue, and get_metrics reports utilization 0.
C38_NonPositiveMaxsizeIsUnbounded ==
    /\ [](maxsize <= 0
            => /\ ~is_full
               /\ total_rejections = 0
               /\ Rejected = {}
               /\ get_metrics.utilization[1] = 0)
    /\ [][\A r \in Requests :
              (maxsize <= 0 /\ PutStepOf(r))
                  => (q' = Append(q, r)
                         /\ total_requests' = total_requests + 1)]_vars

C38_Witness ==
    /\ maxsize = -1
    /\ depth = NumRequests
    /\ depth > maxsize
    /\ total_requests = NumRequests

\* the queue's own state, apart from the counter named
QueueApartFromRequests == <<maxsize, total_rejections, total_timeouts>>
QueueApartFromRejections == <<maxsize, q, total_requests, total_timeouts>>

\* C39: an accepted put changes the queue contents and total_requests only;
\* a rejected put changes total_rejections only; a drain changes neither
\* total_requests nor total_rejections, and total_timeouts only when it
\* returns the empty batch; nothing else changes the queue's state.
C39_QueueFrameConditions ==
    [][/\ \A r \in Requests :
              PutStepOf(r)
                  => \/ /\ stage'[r] = "waiting"
                        /\ q' = Append(q, r)
                        /\ total_requests' = total_requests + 1
                        /\ UNCHANGED QueueApartFromRequests
                     \/ /\ stage'[r] = "done"
                        /\ total_rejections' = total_rejections + 1
                        /\ UNCHANGED QueueApartFromRejections
       /\ (pc = "get_batch" /\ pc' = "encode")
              => UNCHANGED <<maxsize, total_requests, total_rejections,
                             total_timeouts>>
       /\ total_timeouts' # total_timeouts
              => /\ batch' = <<>>
                 /\ pc' = "get_batch"
                 /\ UNCHANGED <<maxsize, q, total_requests, total_rejections>>
       /\ (~PutStep /\ pc' = pc /\ total_timeouts' = total_timeouts)
              => UNCHANGED <<maxsize, q, total_requests, total_rejections>>]_vars

C39_Witness ==
    /\ total_requests = 1
    /\ total_rejections = 1
    /\ total_timeouts = 1
    /\ Len(encode_calls) = 1

====
